---------------------------- MODULE Spec2Model ----------------------------
(***************************************************************************)
(* A model of streamlit_app.py: one Streamlit session of the supply chain  *)
(* analyzer.  The script is re-executed top to bottom on every user        *)
(* interaction; st.session_state is the only state that survives a rerun.  *)
(* A rerun is a sequence of steps, one per statement group of the script;  *)
(* the user acts on the page a finished rerun left.                        *)
(*                                                                         *)
(* Python values are modelled as records tagged with "kind", so that None, *)
(* strings and dictionaries can be compared with each other.               *)
(***************************************************************************)
EXTENDS Integers, Sequences, FiniteSets, TLC

(***************************************************************************)
(* Python values                                                           *)
(***************************************************************************)
None == [kind |-> "None"]

Str(s) == [kind |-> "str", s |-> s]

\* Python truthiness of the values the script tests with `if` / `and`.
Truthy(v) ==
    CASE v.kind = "None" -> FALSE
      [] v.kind = "str"  -> v.s # ""
      [] v.kind = "reply" -> v.body # ""
      [] v.kind = "bool" -> v.b
      [] OTHER -> TRUE

(***************************************************************************)
(* Thresholds of the anomaly sampler                                       *)
(***************************************************************************)
DeliveryThreshold == 10

InventoryThreshold == 800

QuantityThreshold == 500

SampleSize == 3

\* Longest dataset enumerated by the metric-computation specification.
MaxRows == 4

(***************************************************************************)
(* Records of an uploaded CSV.  A raw Date cell is text: either a          *)
(* calendar date or text no date parser accepts.                           *)
(***************************************************************************)
DateText(y, m, d) == [valid |-> TRUE, y |-> y, m |-> m, d |-> d]

BadDateText == [valid |-> FALSE, y |-> 0, m |-> 0, d |-> 0]

Rec(date, sup, prod, qty, days, inv, val, status) ==
    [Date |-> date, Supplier |-> sup, Product |-> prod, Order_Quantity |-> qty,
     Delivery_Time_Days |-> days, Inventory_Level |-> inv, Order_Value |-> val,
     Status |-> status]

\* The three rows of the worked example, then rows on and around the
\* thresholds, one per supplier "B", "A", "C".
E1 == Rec(DateText(2024, 1, 1), "SupA", "Widget", 100, 5, 1000, 500, "On Time")

E2 == Rec(DateText(2024, 1, 2), "SupB", "Widget", 600, 12, 750, 3000, "Delayed")

E3 == Rec(DateText(2024, 1, 3), "SupA", "Gadget", 50, 3, 900, 200, "On Time")

QtyOnly == Rec(DateText(2024, 2, 1), "B", "Gadget", 501, 10, 800, 1200, "On Time")

DaysOnly == Rec(DateText(2024, 2, 2), "A", "Widget", 500, 11, 800, 900, "Delayed")

InvOnly == Rec(DateText(2023, 12, 31), "C", "Gadget", 500, 10, 799, 700, "delayed")

AllThree == Rec(DateText(2024, 3, 5), "C", "Widget", 700, 15, 100, 4100, "Delayed")

RowUniverse == {E1, E2, E3, QtyOnly, DaysOnly, InvOnly, AllThree}

RequiredColumns ==
    {"Date", "Supplier", "Product", "Order_Quantity", "Delivery_Time_Days",
     "Inventory_Level", "Order_Value", "Status"}

(***************************************************************************)
(* pandas operations used by the script                                    *)
(***************************************************************************)
Min2(a, b) == IF a <= b THEN a ELSE b

\* pd.to_datetime on one cell: the ordinal of the calendar date.
to_datetime(cell) == (cell.y * 12 + (cell.m - 1)) * 31 + (cell.d - 1)

\* Timestamp.strftime('%Y-%m-%d'): the date's text again.
strftime(ts) ==
    DateText((ts \div 31) \div 12, ((ts \div 31) % 12) + 1, (ts % 31) + 1)

\* df[col] as the sequence of the column's cells.
Column(rows, col) == [i \in 1..Len(rows) |-> rows[i][col]]

\* DataFrame.head(n)
head(rows, n) == SubSeq(rows, 1, Min2(n, Len(rows)))

Contains(s, x) == \E i \in 1..Len(s) : s[i] = x

\* Series.unique(): values in order of first appearance.
RECURSIVE UniqueFrom(_, _)
UniqueFrom(s, acc) ==
    IF s = <<>> THEN acc
    ELSE UniqueFrom(Tail(s), IF Contains(acc, Head(s)) THEN acc
                             ELSE Append(acc, Head(s)))

RECURSIVE Reverse(_)
Reverse(s) == IF s = <<>> THEN <<>> ELSE Append(Reverse(Tail(s)), Head(s))

\* Faulty variant of unique: values in order of last appearance.
unique_last_seen(s) == Reverse(UniqueFrom(Reverse(s), <<>>))

unique(s) == UniqueFrom(s, <<>>)

\* DataFrame.drop_duplicates(): keep='first', rows compared on all columns.
RECURSIVE DropFrom(_, _)
DropFrom(rows, kept) ==
    IF rows = <<>> THEN kept
    ELSE DropFrom(Tail(rows), IF Contains(kept, Head(rows)) THEN kept
                              ELSE Append(kept, Head(rows)))

\* Faulty variant of drop_duplicates: keep='last'.
drop_duplicates_keep_last(rows) == Reverse(DropFrom(Reverse(rows), <<>>))

drop_duplicates(rows) == DropFrom(rows, <<>>)

RECURSIVE SumSeq(_)
SumSeq(s) == IF s = <<>> THEN 0 ELSE Head(s) + SumSeq(Tail(s))

MaxOf(s) == CHOOSE x \in {s[i] : i \in 1..Len(s)} :
                \A j \in 1..Len(s) : s[j] <= x

MinOf(s) == CHOOSE x \in {s[i] : i \in 1..Len(s)} :
                \A j \in 1..Len(s) : x <= s[j]

\* round(mean, 2), in hundredths.  No dataset within the bounds has a mean
\* that is a tie at the third decimal.
RoundedMean(s) == (200 * SumSeq(s) + Len(s)) \div (2 * Len(s))

\* The three boolean masks of the anomaly sampler.
LateDelivery(r) == r.Delivery_Time_Days > DeliveryThreshold

LowInventory(r) == r.Inventory_Level < InventoryThreshold

LargeOrder(r) == r.Order_Quantity > QuantityThreshold

\* pd.concat([...head(3), ...head(3), ...head(3)])
AnomalyConcat(rows) ==
    head(SelectSeq(rows, LateDelivery), SampleSize)
      \o head(SelectSeq(rows, LowInventory), SampleSize)
      \o head(SelectSeq(rows, LargeOrder), SampleSize)

\* anomaly_examples before it is rendered as text.
AnomalyExamples(rows) == drop_duplicates(AnomalyConcat(rows))

\* The metrics dictionary.  Averages are in hundredths.
Metrics(rows) ==
    [kind |-> "dict",
     total_records |-> Len(rows),
     date_range |-> <<strftime(MinOf(Column(rows, "Date"))),
                      strftime(MaxOf(Column(rows, "Date")))>>,
     avg_delivery_time |-> RoundedMean(Column(rows, "Delivery_Time_Days")),
     max_delivery_time |-> MaxOf(Column(rows, "Delivery_Time_Days")),
     min_inventory |-> MinOf(Column(rows, "Inventory_Level")),
     avg_inventory |-> RoundedMean(Column(rows, "Inventory_Level")),
     suppliers |-> unique(Column(rows, "Supplier")),
     products |-> unique(Column(rows, "Product")),
     delayed_orders |-> Len(SelectSeq(rows, LAMBDA r : r.Status = "Delayed")),
     total_order_value |-> SumSeq(Column(rows, "Order_Value"))]

\* df.groupby('Supplier')['Delivery_Time_Days'].agg(['mean', 'max']);
\* groupby sorts the group keys, the table is kept as a function of the key.
DeliveryBySupplier(rows) ==
    [s \in {rows[i].Supplier : i \in 1..Len(rows)} |->
        LET days == Column(SelectSeq(rows, LAMBDA r : r.Supplier = s),
                           "Delivery_Time_Days")
        IN  [mean |-> <<SumSeq(days), Len(days)>>, max |-> MaxOf(days)]]


(***************************************************************************)
(* Uploaded files.  A file has the columns of its header row and at least  *)
(* one record; a record of a file without some column has no such cell.    *)
(***************************************************************************)
CsvFile(name, columns, rows) ==
    [kind |-> "file", name |-> name, columns |-> columns,
     rows |-> [i \in 1..Len(rows) |-> [c \in columns |-> rows[i][c]]]]

ExampleFile == CsvFile("example.csv", RequiredColumns, <<E1, E2, E3>>)

OtherFile == CsvFile("other.csv", RequiredColumns, <<QtyOnly, DaysOnly>>)

NoDateFile == CsvFile("no_date.csv", RequiredColumns \ {"Date"}, <<E1, E2>>)

BadDateFile ==
    CsvFile("bad_date.csv", RequiredColumns,
            <<E1, [E2 EXCEPT !.Date = BadDateText]>>)

NoStatusFile == CsvFile("no_status.csv", RequiredColumns \ {"Status"}, <<E1, E2>>)

NoOrderValueFile ==
    CsvFile("no_value.csv", RequiredColumns \ {"Order_Value"}, <<E1, E2>>)

Files ==
    {ExampleFile, OtherFile, NoDateFile, BadDateFile, NoStatusFile,
     NoOrderValueFile}

\* Every complete file of one to MaxRows records of RowUniverse.
RECURSIVE SeqsUpTo(_, _)
SeqsUpTo(S, n) ==
    IF n = 0 THEN {<<>>}
    ELSE LET shorter == SeqsUpTo(S, n - 1)
         IN  shorter \cup {Append(s, x) : s \in shorter, x \in S}

Datasets == {CsvFile("data.csv", RequiredColumns, rows) :
                rows \in SeqsUpTo(RowUniverse, MaxRows) \ {<<>>}}

(***************************************************************************)
(* Credentials and the narrative service                                   *)
(***************************************************************************)
NoKey == Str("")

EnvKeys == {None, Str("env-key")}

InputKeys == {NoKey, Str("user-key")}

\* response.text: None when the response carries no text part, else the
\* text, which may be empty.  A text is tagged with the prompt it answers.
Reply(body, prompt) == [kind |-> "reply", body |-> body, prompt |-> prompt]

ReplyBodies == {"", "summary"}

ServiceErrors == {"429 RESOURCE_EXHAUSTED", "API key not valid"}

(***************************************************************************)
(* The state of one browser session                                        *)
(***************************************************************************)
VARIABLES
    env_api_key,           \* os.getenv("GEMINI_API_KEY"), fixed for the process
    key_input,             \* value of the sidebar text_input widget
    uploaded_file,         \* value of the file_uploader widget
    clicked,               \* the button whose click caused this rerun
    session_state,         \* st.session_state: key -> value
    pc,                    \* position of the script in the current rerun
    page,                  \* elements rendered so far in the current rerun
    api_key,               \* script variables of the current rerun
    df,
    metrics,
    delivery_by_supplier,
    anomaly_examples,
    prompt,
    analysis,
    exc                    \* the exception being raised, if any

vars ==
    <<env_api_key, key_input, uploaded_file, clicked, session_state, pc, page,
      api_key, df, metrics, delivery_by_supplier, anomaly_examples, prompt,
      analysis, exc>>

widgets == <<env_api_key, key_input, uploaded_file, clicked>>

locals ==
    <<api_key, df, metrics, delivery_by_supplier, anomaly_examples, prompt,
      analysis>>

Bool(b) == [kind |-> "bool", b |-> b]

Num(n) == [kind |-> "int", n |-> n]

El(name) == [el |-> name, arg |-> None]

ElArg(name, arg) == [el |-> name, arg |-> arg]

Shown(e) == \E i \in 1..Len(page) : page[i] = e

ShownKind(name) == \E i \in 1..Len(page) : page[i].el = name

\* A fresh execution of the script: nothing rendered, no variable bound.
FreshRun ==
    /\ pc' = "sidebar"
    /\ page' = <<>>
    /\ api_key' = None
    /\ df' = None
    /\ metrics' = None
    /\ delivery_by_supplier' = None
    /\ anomaly_examples' = None
    /\ prompt' = None
    /\ analysis' = None
    /\ exc' = None

Init ==
    /\ env_api_key \in EnvKeys
    /\ key_input = NoKey
    /\ uploaded_file = None
    /\ clicked = "none"
    /\ session_state = <<>>
    /\ pc = "sidebar"
    /\ page = <<>>
    /\ api_key = None
    /\ df = None
    /\ metrics = None
    /\ delivery_by_supplier = None
    /\ anomaly_examples = None
    /\ prompt = None
    /\ analysis = None
    /\ exc = None

(***************************************************************************)
(* User interactions: each one changes a widget and reruns the script.     *)
(***************************************************************************)
UploadFile(f) ==
    /\ pc = "idle"
    /\ f # uploaded_file
    /\ uploaded_file' = f
    /\ clicked' = "none"
    /\ FreshRun
    /\ UNCHANGED <<env_api_key, key_input, session_state>>

RemoveFile ==
    /\ pc = "idle"
    /\ uploaded_file # None
    /\ uploaded_file' = None
    /\ clicked' = "none"
    /\ FreshRun
    /\ UNCHANGED <<env_api_key, key_input, session_state>>

\* The text input is rendered only when the environment holds no key.
EnterApiKey(k) ==
    /\ pc = "idle"
    /\ ~Truthy(env_api_key)
    /\ k # key_input
    /\ key_input' = k
    /\ clicked' = "none"
    /\ FreshRun
    /\ UNCHANGED <<env_api_key, uploaded_file, session_state>>

ClickAnalyze ==
    /\ pc = "idle"
    /\ Shown(El("analyze_button"))
    /\ clicked' = "analyze"
    /\ FreshRun
    /\ UNCHANGED <<env_api_key, key_input, uploaded_file, session_state>>

ClickDownload ==
    /\ pc = "idle"
    /\ ShownKind("download_button")
    /\ clicked' = "download"
    /\ FreshRun
    /\ UNCHANGED <<env_api_key, key_input, uploaded_file, session_state>>

(***************************************************************************)
(* The script, statement by statement                                      *)
(***************************************************************************)
Render(e) == page' = Append(page, e)

\* An exception leaves the try body for the handler at `handler`.
Raise(e, handler) ==
    /\ exc' = Str(e)
    /\ pc' = handler

\* Lines 29-58: the credential is the environment's, else the text input's.
ResolveApiKey ==
    /\ pc = "sidebar"
    /\ api_key' = IF Truthy(env_api_key) THEN env_api_key ELSE key_input
    /\ Render(IF Truthy(env_api_key) THEN El("key_from_environment")
              ELSE IF Truthy(key_input) THEN El("key_received")
              ELSE El("enter_key_hint"))
    /\ pc' = "session_init"
    /\ UNCHANGED <<widgets, session_state, df, metrics, delivery_by_supplier,
                   anomaly_examples, prompt, analysis, exc>>

SessionDefaults ==
    [analysis_complete |-> Bool(FALSE), analysis_text |-> None, metrics |-> None]

\* Faulty variant of InitializedState: the defaults are assigned on every
\* rerun, without the `not in st.session_state` tests.
ResetState(ss) == SessionDefaults

\* Lines 83-89: a key is given its default only when the session lacks it.
InitializedState(ss) ==
    [k \in DOMAIN SessionDefaults |->
        IF k \in DOMAIN ss THEN ss[k] ELSE SessionDefaults[k]]

InitSessionState ==
    /\ pc = "session_init"
    /\ session_state' = InitializedState(session_state)
    /\ pc' = "uploader"
    /\ UNCHANGED <<widgets, page, locals, exc>>

\* Lines 113-119 and 376-402.
FileUploader ==
    /\ pc = "uploader"
    /\ IF uploaded_file # None
       THEN /\ pc' = "load"
            /\ UNCHANGED page
       ELSE /\ Render(El("upload_placeholder"))
            /\ pc' = "footer"
    /\ UNCHANGED <<widgets, session_state, locals, exc>>

\* pd.read_csv: the DataFrame of the file's records.
read_csv(f) == [kind |-> "DataFrame", columns |-> f.columns, rows |-> f.rows]

\* df['Date'] = pd.to_datetime(df['Date']) on a frame that has the column
\* and whose Date cells all parse.
WithDates(frame) ==
    [frame EXCEPT !.rows =
        [i \in 1..Len(frame.rows) |->
            [frame.rows[i] EXCEPT !.Date = to_datetime(frame.rows[i].Date)]]]

\* Faulty variant of LoadError: unparseable dates are let through.
LoadErrorColumnOnly(f) ==
    IF "Date" \notin f.columns THEN "KeyError: 'Date'" ELSE ""

\* The exception lines 122-123 raise on file f, "" when they raise none.
LoadError(f) ==
    IF "Date" \notin f.columns THEN "KeyError: 'Date'"
    ELSE IF \E i \in 1..Len(f.rows) : ~f.rows[i].Date.valid
         THEN "ValueError: Unknown datetime string format"
    ELSE ""

\* Lines 121-123.
LoadFile ==
    /\ pc = "load"
    /\ IF LoadError(uploaded_file) # ""
       THEN /\ Raise(LoadError(uploaded_file), "except_outer")
            /\ UNCHANGED df
       ELSE /\ df' = WithDates(read_csv(uploaded_file))
            /\ pc' = "preview"
            /\ UNCHANGED exc
    /\ UNCHANGED <<widgets, session_state, page, api_key, metrics,
                   delivery_by_supplier, anomaly_examples, prompt, analysis>>

\* Lines 126-129.
ShowPreview ==
    /\ pc = "preview"
    /\ page' = page \o <<ElArg("file_loaded", Num(Len(df.rows))), El("data_preview")>>
    /\ pc' = "button"
    /\ UNCHANGED <<widgets, session_state, locals, exc>>

\* Faulty variant of AnalyzeButton: no credential guard.
AnalyzeButtonUnguarded ==
    /\ pc = "button"
    /\ IF clicked # "analyze"
       THEN /\ Render(El("analyze_button"))
            /\ pc' = "display"
       ELSE /\ page' = page \o <<El("analyze_button"), El("visual_analysis")>>
            /\ pc' = "graph"
    /\ UNCHANGED <<widgets, session_state, locals, exc>>

\* Faulty variant of AnalyzeButton: the metrics are computed first and the
\* graphs are never drawn.
AnalyzeButtonMetricsFirst ==
    /\ pc = "button"
    /\ IF clicked # "analyze"
       THEN /\ Render(El("analyze_button"))
            /\ pc' = "display"
       ELSE IF ~Truthy(api_key)
       THEN /\ page' = page \o <<El("analyze_button"), El("missing_key_error")>>
            /\ pc' = "display"
       ELSE /\ page' = page \o <<El("analyze_button"), El("visual_analysis")>>
            /\ pc' = "metrics"
    /\ UNCHANGED <<widgets, session_state, locals, exc>>

\* Lines 132-138: the button, and the credential guard when it was clicked.
AnalyzeButton ==
    /\ pc = "button"
    /\ IF clicked # "analyze"
       THEN /\ Render(El("analyze_button"))
            /\ pc' = "display"
       ELSE IF ~Truthy(api_key)
       THEN /\ page' = page \o <<El("analyze_button"), El("missing_key_error")>>
            /\ pc' = "display"
       ELSE /\ page' = page \o <<El("analyze_button"), El("visual_analysis")>>
            /\ pc' = "graph"
    /\ UNCHANGED <<widgets, session_state, locals, exc>>

\* The columns each of the four graphs reads, in the order it reads them.
GraphColumns(n) ==
    CASE n = 1 -> <<"Supplier", "Date", "Delivery_Time_Days">>
      [] n = 2 -> <<"Date", "Inventory_Level">>
      [] n = 3 -> <<"Product", "Date", "Order_Quantity">>
      [] n = 4 -> <<"Date", "Order_Value", "Order_Quantity">>

\* The first column of `cols` the frame lacks, "" when it has them all.
MissingColumn(frame, cols) ==
    IF \A i \in 1..Len(cols) : cols[i] \in frame.columns THEN ""
    ELSE cols[CHOOSE i \in 1..Len(cols) :
                /\ cols[i] \notin frame.columns
                /\ \A j \in 1..(i - 1) : cols[j] \in frame.columns]

GraphsDrawn == Len(SelectSeq(page, LAMBDA e : e.el = "graph"))

\* Lines 156-221: the next of the four graphs.
GenerateGraph ==
    /\ pc = "graph"
    /\ LET n == GraphsDrawn + 1
           missing == MissingColumn(df, GraphColumns(n))
       IN  IF missing # ""
           THEN /\ Raise("KeyError: " \o missing, "except_outer")
                /\ UNCHANGED page
           ELSE /\ Render(ElArg("graph", Num(n)))
                /\ pc' = IF n = 4 THEN "metrics" ELSE "graph"
                /\ UNCHANGED exc
    /\ UNCHANGED <<widgets, session_state, locals>>

\* The columns the metrics dictionary reads, in the order it reads them.
MetricsColumns ==
    <<"Date", "Delivery_Time_Days", "Inventory_Level", "Supplier", "Product",
      "Status", "Order_Value">>

\* Faulty variant of CalculateMetrics: the computation sits inside the try
\* of the narrative call, whose handler takes its exceptions.
CalculateMetricsInnerTry ==
    /\ pc = "metrics"
    /\ LET missing == MissingColumn(df, MetricsColumns)
       IN  IF missing # ""
           THEN /\ Raise("KeyError: " \o missing, "except_ai")
                /\ UNCHANGED metrics
           ELSE /\ metrics' = Metrics(df.rows)
                /\ pc' = "groupby"
                /\ UNCHANGED exc
    /\ UNCHANGED <<widgets, session_state, page, api_key, df,
                   delivery_by_supplier, anomaly_examples, prompt, analysis>>

\* Lines 223-235.
CalculateMetrics ==
    /\ pc = "metrics"
    /\ LET missing == MissingColumn(df, MetricsColumns)
       IN  IF missing # ""
           THEN /\ Raise("KeyError: " \o missing, "except_outer")
                /\ UNCHANGED metrics
           ELSE /\ metrics' = Metrics(df.rows)
                /\ pc' = "groupby"
                /\ UNCHANGED exc
    /\ UNCHANGED <<widgets, session_state, page, api_key, df,
                   delivery_by_supplier, anomaly_examples, prompt, analysis>>

\* Line 237.
GroupBySupplier ==
    /\ pc = "groupby"
    /\ delivery_by_supplier' =
          [kind |-> "DataFrame", table |-> DeliveryBySupplier(df.rows)]
    /\ pc' = "anomalies"
    /\ UNCHANGED <<widgets, session_state, page, api_key, df, metrics,
                   anomaly_examples, prompt, analysis, exc>>

\* Lines 239-244.
GetAnomalyExamples ==
    /\ pc = "anomalies"
    /\ anomaly_examples' = [kind |-> "table", rows |-> AnomalyExamples(df.rows)]
    /\ pc' = "prompt"
    /\ UNCHANGED <<widgets, session_state, page, api_key, df, metrics,
                   delivery_by_supplier, prompt, analysis, exc>>

\* Lines 250-285: the values the prompt text embeds.
Prompt(m, by_supplier, anomalies) ==
    [kind |-> "prompt",
     date_range |-> m.date_range,
     total_records |-> m.total_records,
     avg_delivery_time |-> m.avg_delivery_time,
     min_inventory |-> m.min_inventory,
     delayed_orders |-> m.delayed_orders,
     suppliers |-> m.suppliers,
     products |-> m.products,
     delivery_by_supplier |-> by_supplier.table,
     anomaly_examples |-> anomalies.rows]

BuildPrompt ==
    /\ pc = "prompt"
    /\ prompt' = Prompt(metrics, delivery_by_supplier, anomaly_examples)
    /\ pc' = "generate"
    /\ UNCHANGED <<widgets, session_state, page, api_key, df, metrics,
                   delivery_by_supplier, anomaly_examples, analysis, exc>>

\* What response.text can be for a prompt.
Responses(p) == {None} \cup {Reply(b, p) : b \in ReplyBodies}

\* Lines 288-294: the blocking call; it returns a response or raises.
GenerateContent ==
    /\ pc = "generate"
    /\ \/ \E r \in Responses(prompt) :
            /\ analysis' = r
            /\ pc' = "store_text"
            /\ UNCHANGED exc
       \/ \E e \in ServiceErrors :
            /\ Raise(e, "except_ai")
            /\ UNCHANGED analysis
    /\ UNCHANGED <<widgets, session_state, page, api_key, df, metrics,
                   delivery_by_supplier, anomaly_examples, prompt>>

\* Line 297.
StoreAnalysisText ==
    /\ pc = "store_text"
    /\ session_state' = [session_state EXCEPT !.analysis_text = analysis]
    /\ pc' = "store_metrics"
    /\ UNCHANGED <<widgets, page, locals, exc>>

\* Line 298.
StoreMetrics ==
    /\ pc = "store_metrics"
    /\ session_state' = [session_state EXCEPT !.metrics = metrics]
    /\ pc' = "store_complete"
    /\ UNCHANGED <<widgets, page, locals, exc>>

\* Lines 299-304.
StoreComplete ==
    /\ pc = "store_complete"
    /\ session_state' = [session_state EXCEPT !.analysis_complete = Bool(TRUE)]
    /\ Render(El("analysis_complete"))
    /\ pc' = "display"
    /\ UNCHANGED <<widgets, locals, exc>>

\* Lines 306-308: the handler of the narrative call.
AIAnalysisError ==
    /\ pc = "except_ai"
    /\ page' = page \o <<ElArg("ai_analysis_error", exc), El("possible_issues")>>
    /\ exc' = None
    /\ pc' = "display"
    /\ UNCHANGED <<widgets, session_state, locals>>

\* Lines 342-361: the report text, by the values it embeds.
ReportText(text, m) == [kind |-> "report", narrative |-> text, metrics |-> m]

\* Lines 92-110 and 364-370: the PDF of the report behind the download button.
DownloadButton(text, m) == ElArg("download_button", ReportText(text, m))

\* Lines 310-370: what the display block renders from the session state.
CachedResults(ss) ==
    IF ss.analysis_complete.b /\ Truthy(ss.analysis_text)
    THEN <<ElArg("ai_insights", ss.analysis_text)>>
         \o (IF Truthy(ss.metrics)
             THEN <<ElArg("summary_metrics", ss.metrics),
                    DownloadButton(ss.analysis_text, ss.metrics)>>
             ELSE <<>>)
    ELSE <<>>

DisplayCachedResults ==
    /\ pc = "display"
    /\ page' = page \o CachedResults(session_state)
    /\ pc' = "footer"
    /\ UNCHANGED <<widgets, session_state, locals, exc>>

\* Lines 372-374: the handler of everything after the upload.
OuterExcept ==
    /\ pc = "except_outer"
    /\ page' = page \o <<ElArg("error_loading_file", exc),
                         ElArg("required_columns_info",
                               [kind |-> "columns", names |-> RequiredColumns])>>
    /\ exc' = None
    /\ pc' = "footer"
    /\ UNCHANGED <<widgets, session_state, locals>>

\* Lines 404-410; the script ends and the page waits for the user.
Footer ==
    /\ pc = "footer"
    /\ Render(El("footer"))
    /\ pc' = "idle"
    /\ UNCHANGED <<widgets, session_state, locals, exc>>

Interaction ==
    \/ \E f \in Files : UploadFile(f)
    \/ RemoveFile
    \/ \E k \in InputKeys : EnterApiKey(k)
    \/ ClickAnalyze
    \/ ClickDownload

Script ==
    \/ ResolveApiKey
    \/ InitSessionState
    \/ FileUploader
    \/ LoadFile
    \/ ShowPreview
    \/ AnalyzeButton
    \/ GenerateGraph
    \/ CalculateMetrics
    \/ GroupBySupplier
    \/ GetAnomalyExamples
    \/ BuildPrompt
    \/ GenerateContent
    \/ StoreAnalysisText
    \/ StoreMetrics
    \/ StoreComplete
    \/ AIAnalysisError
    \/ DisplayCachedResults
    \/ OuterExcept
    \/ Footer

Next == Interaction \/ Script

Spec == Init /\ [][Next]_vars

(***************************************************************************)
(* The metric computation on every dataset of at most MaxRows records: the *)
(* script from the load of the uploaded file to the anomaly sample, in a   *)
(* rerun caused by a click on Analyze with the environment's credential.   *)
(***************************************************************************)
InitData ==
    /\ env_api_key = Str("env-key")
    /\ key_input = NoKey
    /\ uploaded_file \in Datasets
    /\ clicked = "analyze"
    /\ session_state = SessionDefaults
    /\ pc = "load"
    /\ page = <<El("key_from_environment")>>
    /\ api_key = Str("env-key")
    /\ df = None
    /\ metrics = None
    /\ delivery_by_supplier = None
    /\ anomaly_examples = None
    /\ prompt = None
    /\ analysis = None
    /\ exc = None

NextData ==
    \/ LoadFile
    \/ ShowPreview
    \/ AnalyzeButton
    \/ GenerateGraph
    \/ CalculateMetrics
    \/ GroupBySupplier
    \/ GetAnomalyExamples

SpecData == InitData /\ [][NextData]_vars

(***************************************************************************)
(* Vocabulary of the properties                                            *)
(***************************************************************************)
\* The session-held cell, a field the session lacks reading as its default.
CellView(ss) ==
    [analysis_complete |->
        IF "analysis_complete" \in DOMAIN ss THEN ss.analysis_complete
        ELSE Bool(FALSE),
     analysis_text |->
        IF "analysis_text" \in DOMAIN ss THEN ss.analysis_text ELSE None,
     metrics |-> IF "metrics" \in DOMAIN ss THEN ss.metrics ELSE None]

CellUnchanged == CellView(session_state') = CellView(session_state)

\* No credential in the environment and none entered.
NoCredential ==
    /\ env_api_key \in {None, Str("")}
    /\ key_input = Str("")

\* The narrative service has been called in the current rerun.
ServiceCalled ==
    \/ pc \in {"except_ai", "store_text", "store_metrics", "store_complete"}
    \/ ShownKind("analysis_complete")
    \/ ShownKind("ai_analysis_error")

RunEnded == pc = "idle"

Count(s, x) == Cardinality({i \in 1..Len(s) : s[i] = x})

NoDuplicates(s) == \A i, j \in 1..Len(s) : s[i] = s[j] => i = j

FirstIndex(s, x) == CHOOSE i \in 1..Len(s) :
                        s[i] = x /\ \A j \in 1..(i - 1) : s[j] # x

\* `out` holds each distinct value of `s` once, in order of first appearance.
FirstSeenOrder(s, out) ==
    /\ NoDuplicates(out)
    /\ {out[i] : i \in 1..Len(out)} = {s[i] : i \in 1..Len(s)}
    /\ \A i, j \in 1..Len(out) :
          i < j => FirstIndex(s, out[i]) < FirstIndex(s, out[j])

\* The rows at the n smallest positions of `rows` that satisfy P, in file
\* order.
FirstMatches(rows, P(_), n) ==
    LET matching == {i \in 1..Len(rows) : P(rows[i])}
        first == {i \in matching : Cardinality({j \in matching : j < i}) < n}
    IN  [k \in 1..Cardinality(first) |->
            rows[CHOOSE i \in first :
                    Cardinality({j \in first : j < i}) = k - 1]]

DeliveryOver10(r) == r.Delivery_Time_Days > 10

InventoryUnder800(r) == r.Inventory_Level < 800

QuantityOver500(r) == r.Order_Quantity > 500

\* The three groups of the anomaly sample, concatenated, as the
\* specification words them.
ExpectedGroups(rows) ==
    FirstMatches(rows, DeliveryOver10, 3)
      \o FirstMatches(rows, InventoryUnder800, 3)
      \o FirstMatches(rows, QuantityOver500, 3)

MatchesAll(r) == DeliveryOver10(r) /\ InventoryUnder800(r) /\ QuantityOver500(r)

\* What holds of the anomaly sample of every dataset, whatever the claim
\* says of rows matching all three predicates.
SampleShape(rows, sample) ==
    /\ Len(ExpectedGroups(rows)) <= 9
    /\ FirstSeenOrder(ExpectedGroups(rows), sample)
    /\ \A i \in 1..Len(sample) :
          \/ DeliveryOver10(sample[i])
          \/ InventoryUnder800(sample[i])
          \/ QuantityOver500(sample[i])

(***************************************************************************)
(* C1: when the narrative service fails in an analysis run, the graphs and *)
(* the metrics computed in that run are on the page of that run, the       *)
(* narrative section is not, and the raw error text is shown.              *)
(* The display block renders metrics only from a stored successful run, so *)
(* this fails on the first analysis of a session.                          *)
(***************************************************************************)
C1_MetricsVisibleAfterServiceError ==
    (RunEnded /\ ShownKind("ai_analysis_error")) =>
        /\ GraphsDrawn = 4
        /\ Shown(ElArg("summary_metrics", metrics))
        /\ ~ShownKind("ai_insights")
        /\ \E e \in ServiceErrors : Shown(ElArg("ai_analysis_error", Str(e)))

\* One step of a rerun, as C2 constrains it.
C2_Step ==
    /\ ~CellUnchanged => pc \in {"store_text", "store_metrics", "store_complete"}
    /\ pc = "store_text" =>
          /\ clicked = "analyze"
          /\ ~NoCredential
          /\ metrics # None
          /\ pc' = "store_metrics"
    /\ pc = "store_metrics" =>
          /\ session_state.analysis_text = analysis
          /\ pc' = "store_complete"
    /\ pc = "store_complete" =>
          CellView(session_state') =
             [analysis_complete |-> Bool(TRUE), analysis_text |-> analysis,
              metrics |-> metrics]

(***************************************************************************)
(* C2: the session-held cell changes only in the three stores of an        *)
(* analysis run whose narrative call returned; these are taken together,   *)
(* and leave the cell holding that run's narrative and metrics and True.   *)
(* Every other step of every rerun leaves the three fields unchanged.      *)
(***************************************************************************)
C2_ReplacedOnlyByAnalysis == [][C2_Step]_vars

\* An earlier result is being overwritten by the stores of a later run.
C2_Witness ==
    /\ pc = "store_metrics"
    /\ session_state.metrics # None
    /\ session_state.metrics # metrics

(***************************************************************************)
(* C3: once an analysis has stored a narrative string, whatever the string,*)
(* every later rerun that loads a file and is not an Analyze click shows   *)
(* the stored narrative, the stored metrics and the download, computing no *)
(* metrics and calling no service.  An empty narrative is stored and never *)
(* shown.                                                                  *)
(***************************************************************************)
C3_RedisplayAnyNarrative ==
    (/\ RunEnded
     /\ clicked # "analyze"
     /\ df # None
     /\ session_state.analysis_complete = Bool(TRUE)
     /\ session_state.analysis_text.kind = "reply") =>
        /\ Shown(ElArg("ai_insights", session_state.analysis_text))
        /\ Shown(ElArg("summary_metrics", session_state.metrics))
        /\ ShownKind("download_button")
        /\ metrics = None
        /\ anomaly_examples = None
        /\ ~ServiceCalled

\* One step of a rerun, as C4 constrains it.
C4_Step ==
    (clicked = "analyze" /\ NoCredential) =>
        /\ pc \in {"sidebar", "session_init", "uploader", "load", "preview",
                   "button", "display", "footer", "idle"}
        /\ GraphsDrawn = 0
        /\ ~ShownKind("visual_analysis")
        /\ metrics = None
        /\ delivery_by_supplier = None
        /\ anomaly_examples = None
        /\ prompt = None
        /\ ~ServiceCalled
        /\ exc = None
        /\ pc \in {"display", "footer", "idle"} => Shown(El("missing_key_error"))
        /\ session_state' = session_state

(***************************************************************************)
(* C4: an Analyze click without a credential is answered by the            *)
(* instructional message alone: no graph, no metrics, no anomaly sample,   *)
(* no prompt, no service call, and the session state is left as it was.    *)
(***************************************************************************)
C4_MissingCredentialBlocks == [][C4_Step]_vars

\* Blocked with a result of an earlier analysis still in the session.
C4_Witness ==
    /\ RunEnded
    /\ clicked = "analyze"
    /\ NoCredential
    /\ Shown(El("missing_key_error"))
    /\ session_state.analysis_complete = Bool(TRUE)

\* The files C5 is about.
LacksDate(f) ==
    \/ "Date" \notin f.columns
    \/ \E i \in 1..Len(f.rows) : ~f.rows[i].Date.valid

\* One step of a rerun, as C5 constrains it.
C5_Step ==
    (uploaded_file # None /\ LacksDate(uploaded_file)) =>
        /\ df = None
        /\ ~ShownKind("file_loaded")
        /\ ~ShownKind("data_preview")
        /\ ~ShownKind("analyze_button")
        /\ GraphsDrawn = 0
        /\ metrics = None
        /\ anomaly_examples = None
        /\ ~ServiceCalled
        /\ pc \in {"footer", "idle"} =>
              /\ \E i \in 1..Len(page) :
                    /\ page[i].el = "error_loading_file"
                    /\ page[i].arg.kind = "str"
                    /\ page[i].arg.s # ""
              /\ \E i \in 1..Len(page) :
                    /\ page[i].el = "required_columns_info"
                    /\ page[i].arg.names = RequiredColumns
        /\ session_state' = session_state

(***************************************************************************)
(* C5: a file without the Date column, or with a Date that does not parse, *)
(* yields no dataset: the success message, the preview and the Analyze     *)
(* button are not reached, nothing is drawn, computed or requested, the    *)
(* session state is unchanged, and the page ends with the reason and the   *)
(* list of required columns.                                               *)
(***************************************************************************)
C5_LoadIsAllOrNothing == [][C5_Step]_vars

\* A rejected load in a session that holds an earlier result.
C5_Witness ==
    /\ RunEnded
    /\ uploaded_file \in {NoDateFile, BadDateFile}
    /\ ShownKind("error_loading_file")
    /\ session_state.analysis_complete = Bool(TRUE)

\* The files C6 is about.
LacksOtherColumn(f) ==
    /\ ~LacksDate(f)
    /\ RequiredColumns \ f.columns # {}

\* One step of a rerun, as C6 constrains it.
C6_Step ==
    (/\ uploaded_file # None
     /\ LacksOtherColumn(uploaded_file)
     /\ clicked = "analyze"
     /\ ~NoCredential) =>
        /\ ~ShownKind("summary_metrics")
        /\ ~ShownKind("ai_insights")
        /\ prompt = None
        /\ ~ServiceCalled
        /\ pc \notin {"generate", "display"}
        /\ pc \in {"footer", "idle"} =>
              /\ ShownKind("error_loading_file")
              /\ \E i \in 1..Len(page) :
                    /\ page[i].el = "required_columns_info"
                    /\ page[i].arg.names = RequiredColumns
        /\ session_state' = session_state

(***************************************************************************)
(* C6: an analysis run on a dataset that has its Date but lacks another    *)
(* column aborts: no metrics of the run are displayed or stored, no        *)
(* service is called, and the page ends with the generic message naming    *)
(* the required columns.                                                   *)
(***************************************************************************)
C6_MissingColumnAborts == [][C6_Step]_vars

\* All four graphs were drawn before the Status column was missed.
C6_Witness ==
    /\ RunEnded
    /\ uploaded_file = NoStatusFile
    /\ clicked = "analyze"
    /\ GraphsDrawn = 4
    /\ ShownKind("error_loading_file")
    /\ session_state.analysis_complete = Bool(TRUE)

(***************************************************************************)
(* C7, as amended: for every dataset the anomaly sample is the first up to *)
(* 3 rows with Delivery_Time_Days > 10, then the first up to 3 with        *)
(* Inventory_Level < 800, then the first up to 3 with Order_Quantity >     *)
(* 500, exact duplicates removed keeping the first; so at most 9 rows      *)
(* before the removal, no duplicate after, every row satisfies one of the  *)
(* predicates, and a row matching all three appears exactly once when it   *)
(* is among the first three matches of one of them.                        *)
(***************************************************************************)
C7_AnomalySample ==
    anomaly_examples # None =>
        /\ SampleShape(df.rows, anomaly_examples.rows)
        /\ \A i \in 1..Len(df.rows) :
              (/\ MatchesAll(df.rows[i])
               /\ Contains(ExpectedGroups(df.rows), df.rows[i])) =>
                  Count(anomaly_examples.rows, df.rows[i]) = 1
        /\ uploaded_file.rows = <<E1, E2, E3>> =>
              anomaly_examples.rows = <<df.rows[2]>>

\* C7 as the claim words it: every row of the dataset matching all three
\* predicates appears exactly once in the sample.
C7_Original ==
    anomaly_examples # None =>
        /\ SampleShape(df.rows, anomaly_examples.rows)
        /\ \A i \in 1..Len(df.rows) :
              MatchesAll(df.rows[i]) =>
                  Count(anomaly_examples.rows, df.rows[i]) = 1

\* A fourth late delivery is cut off, a duplicate is removed, and a row
\* matching all three predicates is in the sample.
C7_Witness ==
    /\ anomaly_examples # None
    /\ Cardinality({i \in 1..Len(df.rows) : DeliveryOver10(df.rows[i])}) > 3
    /\ Len(anomaly_examples.rows) < Len(ExpectedGroups(df.rows))
    /\ \E i \in 1..Len(df.rows) :
          /\ MatchesAll(df.rows[i])
          /\ Count(anomaly_examples.rows, df.rows[i]) = 1

(***************************************************************************)
(* C8: the supplier list and the product list of the metrics hold each     *)
(* distinct value of their column exactly once, in order of first          *)
(* appearance; suppliers B, A, B, C give B, A, C.                          *)
(***************************************************************************)
C8_DistinctListsFirstSeen ==
    metrics # None =>
        /\ FirstSeenOrder(Column(df.rows, "Supplier"), metrics.suppliers)
        /\ FirstSeenOrder(Column(df.rows, "Product"), metrics.products)
        /\ Column(df.rows, "Supplier") = <<"B", "A", "B", "C">> =>
              metrics.suppliers = <<"B", "A", "C">>

C8_Witness ==
    /\ metrics # None
    /\ Column(df.rows, "Supplier") = <<"B", "A", "B", "C">>
    /\ Len(metrics.products) < Len(df.rows)

(***************************************************************************)
(* C9, as amended: in every rerun the stages run in the order load, render *)
(* graphs, compute metrics, call the narrative service, render report: no  *)
(* graph is drawn before the file is loaded, the metrics are computed only *)
(* after all four graphs are drawn, the service is called only after both, *)
(* and an analysis run renders the report only after the call.             *)
(***************************************************************************)
C9_StageOrder ==
    /\ GraphsDrawn > 0 => (df # None /\ ShownKind("file_loaded"))
    /\ metrics # None => GraphsDrawn = 4
    /\ pc = "generate" => (metrics # None /\ prompt # None)
    /\ ServiceCalled => (metrics # None /\ GraphsDrawn = 4 /\ prompt # None)
    /\ (clicked = "analyze" /\ Truthy(api_key) /\ pc \in {"footer", "idle"}
           /\ ~ShownKind("error_loading_file")) => ServiceCalled

\* C9 as the claim words it: no graph before the metrics of the run.
C9_Original ==
    /\ GraphsDrawn > 0 => metrics # None
    /\ ServiceCalled => (metrics # None /\ GraphsDrawn = 4)

\* All four graphs are on the page and the metrics are yet to be computed.
C9_Witness ==
    /\ pc = "metrics"
    /\ GraphsDrawn = 4
    /\ metrics = None

(***************************************************************************)
(* C10: whenever the display block reads the session-held cell it finds    *)
(* either analysis_complete False with no narrative and no metrics, or     *)
(* analysis_complete True with a narrative and metrics, both non-None, the *)
(* narrative being the answer to the prompt made from those metrics.       *)
(* A response without a text part stores None beside True.                 *)
(***************************************************************************)
GeneratedFrom(text, m) ==
    /\ text.kind = "reply"
    /\ text.prompt.date_range = m.date_range
    /\ text.prompt.total_records = m.total_records
    /\ text.prompt.avg_delivery_time = m.avg_delivery_time
    /\ text.prompt.min_inventory = m.min_inventory
    /\ text.prompt.delayed_orders = m.delayed_orders
    /\ text.prompt.suppliers = m.suppliers
    /\ text.prompt.products = m.products

C10_NeverPartiallyUpdated ==
    pc = "display" =>
        \/ /\ session_state.analysis_complete = Bool(FALSE)
           /\ session_state.analysis_text = None
           /\ session_state.metrics = None
        \/ /\ session_state.analysis_complete = Bool(TRUE)
           /\ session_state.analysis_text # None
           /\ session_state.metrics # None
           /\ GeneratedFrom(session_state.analysis_text, session_state.metrics)

=============================================================================
